---- MODULE Spec2Model ----
\* ArcticCare API: the reward ledger, badge unlock and streak handlers of the
\* REST backend, as a state machine over the relational store.
\*
\* Time is counted in hours since the server's epoch; an identifier that the
\* store generates (a cuid) is named by the unique key of its row (a user by
\* its e-mail, a badge by its name), which the unique indexes make one-to-one.
EXTENDS Integers, Sequences, FiniteSets, TLC

\* ------------------------------------------------------------------ bounds

MaxUsers == 2
MaxBadges == 1
MaxIssues == 1
MaxContrib == 3
MaxClock == 192
MaxPoints == 220
MaxReqs == 2
MaxConcClock == 48
MaxRankUsers == 3
MaxMonthClock == 720

UserIds == 1..MaxUsers
BadgeIds == 1..MaxBadges
IssueIds == 1..MaxIssues
RankUserIds == 1..MaxRankUsers

\* a request field that is absent (undefined) or empty (falsy)
Missing == "missing"

\* an identifier that is absent from the request body
NoId == 0

\* request bodies the handlers are driven with
IssueBodyIn ==
    {[severity |-> s, category |-> "fire", complete |-> TRUE] :
        s \in {"low", "medium", "high", "critical"}}
    \cup {[severity |-> "extreme", category |-> "fire", complete |-> TRUE],
          [severity |-> "low", category |-> "lava", complete |-> TRUE],
          [severity |-> Missing, category |-> "fire", complete |-> TRUE],
          [severity |-> "low", category |-> "fire", complete |-> FALSE]}
VoteTypeIn == {"upvote", "confirm", "like"}
ContentIn == {"text", Missing}
\* the administrator of the seed script, named after the demo users
AdminId == 4
OwnerUserIds == UserIds \cup {AdminId}
StatusIn == {"resolved", Missing}
BadgePointsIn == {10}
PointsIn == {100}
ActionIn == {"add", "set"}
TickHours == {12, 24}
StreakUsers == {1}
LevelUsers == {1}
ErrUsers == {1}
FrameCallers == {1}
RankTypeIn == {"global", "monthly"}
PageIn == {1, 2}
LimitIn == {1, 2, 10}
LevelPointsIn == {-20, 0, 89, 100}

\* ------------------------------------------------------------------ state

VARIABLES
    users,          \* table users: id -> row
    contributions,  \* table contributions, in insertion order
    badges,         \* table badges: id -> row
    userBadges,     \* table user_badges, in insertion order
    issues,         \* table issues: id -> row
    votes,          \* table votes, in insertion order
    comments,       \* table comments, in insertion order
    readings,       \* number of rows of table climate_readings
    clock,          \* new Date(), in hours
    resp,           \* the response of the last request served to completion
    reqs,           \* the requests in flight, one record per connection
    streakDays      \* per user, the calendar days on which PUT /:id/streak ran

vars == <<users, contributions, badges, userBadges, issues, votes, comments,
          readings, clock, resp, reqs, streakDays>>

store == <<users, contributions, badges, userBadges, issues, votes, comments,
           readings>>

\* ------------------------------------------------------------ program constants

HoursPerDay == 24
StreakBonusEvery == 7
PointsPerLevel == 100
RegisterPoints == 10
ConfirmPoints == 5
CommentPoints == 5
ReadingPoints == 10
AnalysisPoints == 5
ResolvePoints == 50
HoursPerMonth == 720
GraceHours == 48

\* ------------------------------------------------------------------ storage

\* users row defaults of the schema, for prisma.user.create
NewUser(now) ==
    [role |-> "user", points |-> 0, level |-> 1, currentStreak |-> 0,
     longestStreak |-> 0, lastActiveAt |-> now]

\* prisma.contribution.create: one row appended; description names the subject
ContribRow(u, type, pts, ref) ==
    [userId |-> u, type |-> type, points |-> pts, ref |-> ref,
     createdAt |-> clock]

\* the user's latest row is replaced by the new one
ContributionUpsert(c, u, type, pts, ref) ==
    IF \E i \in 1..Len(c) : c[i].userId = u
    THEN LET last == CHOOSE i \in 1..Len(c) :
                         /\ c[i].userId = u
                         /\ \A j \in 1..Len(c) : c[j].userId = u => j <= i
         IN SubSeq(c, 1, last - 1) \o SubSeq(c, last + 1, Len(c))
                \o <<ContribRow(u, type, pts, ref)>>
    ELSE Append(c, ContribRow(u, type, pts, ref))

ContributionCreate(c, u, type, pts, ref) == Append(c, ContribRow(u, type, pts, ref))

\* the total is overwritten instead of incremented
UserSetPoints(us, u, n) == [us EXCEPT ![u].points = n]

\* the update has no where clause: every row is incremented
UserIncrementAll(us, u, n) ==
    [v \in DOMAIN us |-> [us[v] EXCEPT !.points = @ + n]]

\* prisma.user.update({ data: { points: { increment: n } } }): atomic in the store
UserIncrement(us, u, n) == [us EXCEPT ![u].points = @ + n]

\* sum of the points of the contributions of user u
RECURSIVE SumPoints(_, _)
SumPoints(c, u) ==
    IF c = <<>> THEN 0
    ELSE (IF Head(c).userId = u THEN Head(c).points ELSE 0) + SumPoints(Tail(c), u)

\* remove the i-th row of a table
RemoveAt(table, i) == SubSeq(table, 1, i - 1) \o SubSeq(table, i + 1, Len(table))

\* the id the store gives the next row of a table with ids in S
FreshId(S, used) == CHOOSE i \in S \ used : \A j \in S \ used : i <= j

\* the response of a handler
Response(op, status, user, amount, flag) ==
    [op |-> op, status |-> status, user |-> user, amount |-> amount, flag |-> flag]

NoResponse == Response("none", 0, 0, 0, FALSE)

\* room left in the ledger (bounds the model)
LedgerRoom == Len(contributions) < MaxContrib

\* ------------------------------------------------------------------ initial state

\* the store after the migration has run: every table is empty
Init ==
    /\ users = <<>>
    /\ contributions = <<>>
    /\ badges = <<>>
    /\ userBadges = <<>>
    /\ issues = <<>>
    /\ votes = <<>>
    /\ comments = <<>>
    /\ readings = 0
    /\ clock = 0
    /\ resp = NoResponse
    /\ reqs = <<>>
    /\ streakDays = [u \in UserIds |-> {}]

\* authenticate: the bearer token names a user that exists
Authenticated(caller) == caller \in DOMAIN users

\* ------------------------------------------------- handlers, served to completion

\* POST /api/auth/register
Register(email, complete) ==
    /\ UNCHANGED <<badges, userBadges, issues, votes, comments, readings, clock,
                   reqs, streakDays>>
    /\ IF ~complete \/ email \in DOMAIN users
       THEN /\ resp' = Response("register", 400, 0, 0, FALSE)
            /\ UNCHANGED <<users, contributions>>
       ELSE /\ LedgerRoom
            /\ LET created == users @@ (email :> NewUser(clock))
               IN users' = [created EXCEPT ![email].points = RegisterPoints]
            /\ contributions' =
                   ContributionCreate(contributions, email, "account_created",
                                      RegisterPoints, 0)
            /\ resp' = Response("register", 201, email, RegisterPoints, FALSE)

\* the two lower tiers are exchanged
ReportPointsSwapped(severity) ==
    IF severity = "critical" THEN 50 ELSE IF severity = "high" THEN 20 ELSE 30

\* points for reporting an issue of a severity
ReportPoints(severity) ==
    IF severity = "critical" THEN 50 ELSE IF severity = "high" THEN 30 ELSE 20

validCategories == {"flood", "fire", "pollution", "deforestation", "waste", "other"}
validSeverities == {"low", "medium", "high", "critical"}

\* POST /api/issues
CreateIssue(caller, severity, category, complete) ==
    /\ Authenticated(caller)
    /\ UNCHANGED <<badges, userBadges, votes, comments, readings, clock, reqs,
                   streakDays>>
    /\ IF \/ ~complete \/ category = Missing \/ severity = Missing
          \/ category \notin validCategories
          \/ severity \notin validSeverities
       THEN /\ resp' = Response("createIssue", 400, 0, 0, FALSE)
            /\ UNCHANGED <<users, contributions, issues>>
       ELSE /\ LedgerRoom
            /\ DOMAIN issues # IssueIds
            /\ LET id == FreshId(IssueIds, DOMAIN issues)
                   points == ReportPoints(severity)
               IN /\ issues' = issues @@
                       (id :> [userId |-> caller, severity |-> severity,
                               status |-> "open"])
                  /\ contributions' =
                         ContributionCreate(contributions, caller, "issue_reported",
                                            points, id)
                  /\ users' = UserIncrement(users, caller, points)
                  /\ resp' = Response("createIssue", 201, caller, points, FALSE)

\* the lookup leaves the type out
ExistingVoteAnyType(id, caller, type) ==
    {i \in 1..Len(votes) : votes[i].issueId = id /\ votes[i].userId = caller}

\* prisma.vote.findFirst({ where: { issueId, userId, type } })
ExistingVote(id, caller, type) ==
    {i \in 1..Len(votes) : /\ votes[i].issueId = id
                            /\ votes[i].userId = caller
                            /\ votes[i].type = type}

\* POST /api/issues/:id/vote
Vote(caller, id, type) ==
    /\ Authenticated(caller)
    /\ UNCHANGED <<badges, userBadges, issues, comments, readings, clock, reqs,
                   streakDays>>
    /\ IF type \notin {"upvote", "confirm"}
       THEN /\ resp' = Response("vote", 400, 0, 0, FALSE)
            /\ UNCHANGED <<users, contributions, votes>>
       ELSE IF id \notin DOMAIN issues
       THEN /\ resp' = Response("vote", 404, 0, 0, FALSE)
            /\ UNCHANGED <<users, contributions, votes>>
       ELSE IF ExistingVote(id, caller, type) # {}
       THEN /\ votes' = RemoveAt(votes, CHOOSE i \in ExistingVote(id, caller, type) :
                                     \A j \in ExistingVote(id, caller, type) : i <= j)
            /\ resp' = Response("vote", 200, caller, 0, FALSE)
            /\ UNCHANGED <<users, contributions>>
       ELSE /\ votes' = Append(votes, [issueId |-> id, userId |-> caller,
                                       type |-> type])
            /\ IF type = "confirm"
               THEN /\ LedgerRoom
                    /\ contributions' =
                           ContributionCreate(contributions, caller,
                                              "issue_confirmed", ConfirmPoints, id)
                    /\ users' = UserIncrement(users, caller, ConfirmPoints)
               ELSE UNCHANGED <<users, contributions>>
            /\ resp' = Response("vote", 200, caller,
                                IF type = "confirm" THEN ConfirmPoints ELSE 0, TRUE)

\* the comment row is written before the issue is looked up
AddCommentWriteFirst(caller, id, content) ==
    /\ Authenticated(caller)
    /\ UNCHANGED <<badges, userBadges, issues, votes, readings, clock, reqs,
                   streakDays>>
    /\ IF content = Missing
       THEN /\ resp' = Response("addComment", 400, 0, 0, FALSE)
            /\ UNCHANGED <<users, contributions, comments>>
       ELSE /\ comments' = Append(comments, [issueId |-> id, userId |-> caller])
            /\ IF id \notin DOMAIN issues
               THEN /\ resp' = Response("addComment", 404, 0, 0, FALSE)
                    /\ UNCHANGED <<users, contributions>>
               ELSE /\ LedgerRoom
                    /\ contributions' =
                           ContributionCreate(contributions, caller, "comment",
                                              CommentPoints, id)
                    /\ users' = UserIncrement(users, caller, CommentPoints)
                    /\ resp' = Response("addComment", 201, caller, CommentPoints,
                                        FALSE)

\* POST /api/issues/:id/comments
AddComment(caller, id, content) ==
    /\ Authenticated(caller)
    /\ UNCHANGED <<badges, userBadges, issues, votes, readings, clock, reqs,
                   streakDays>>
    /\ IF content = Missing
       THEN /\ resp' = Response("addComment", 400, 0, 0, FALSE)
            /\ UNCHANGED <<users, contributions, comments>>
       ELSE IF id \notin DOMAIN issues
       THEN /\ resp' = Response("addComment", 404, 0, 0, FALSE)
            /\ UNCHANGED <<users, contributions, comments>>
       ELSE /\ LedgerRoom
            /\ comments' = Append(comments, [issueId |-> id, userId |-> caller])
            /\ contributions' =
                   ContributionCreate(contributions, caller, "comment",
                                      CommentPoints, id)
            /\ users' = UserIncrement(users, caller, CommentPoints)
            /\ resp' = Response("addComment", 201, caller, CommentPoints, FALSE)

\* POST /api/climate/readings
AddReading(caller, complete) ==
    /\ Authenticated(caller)
    /\ UNCHANGED <<badges, userBadges, issues, votes, comments, clock, reqs,
                   streakDays>>
    /\ IF ~complete
       THEN /\ resp' = Response("addReading", 400, 0, 0, FALSE)
            /\ UNCHANGED <<users, contributions, readings>>
       ELSE /\ LedgerRoom
            /\ readings' = readings + 1
            /\ contributions' =
                   ContributionCreate(contributions, caller, "data_submitted",
                                      ReadingPoints, 0)
            /\ users' = UserIncrement(users, caller, ReadingPoints)
            /\ resp' = Response("addReading", 201, caller, ReadingPoints, FALSE)

\* POST /api/issues/analyze-report
AnalyzeReport(caller, complete) ==
    /\ Authenticated(caller)
    /\ UNCHANGED <<badges, userBadges, issues, votes, comments, readings, clock,
                   reqs, streakDays>>
    /\ IF ~complete
       THEN /\ resp' = Response("analyzeReport", 400, 0, 0, FALSE)
            /\ UNCHANGED <<users, contributions>>
       ELSE /\ LedgerRoom
            /\ contributions' =
                   ContributionCreate(contributions, caller, "ai_analysis",
                                      AnalysisPoints, 0)
            /\ users' = UserIncrement(users, caller, AnalysisPoints)
            /\ resp' = Response("analyzeReport", 200, caller, AnalysisPoints, FALSE)

\* POST /api/institution/reports/:id/resolve
ResolveReport(id) ==
    /\ UNCHANGED <<badges, userBadges, votes, comments, readings, clock, reqs,
                   streakDays>>
    /\ IF id \notin DOMAIN issues
       THEN /\ resp' = Response("resolveReport", 404, 0, 0, FALSE)
            /\ UNCHANGED <<users, contributions, issues>>
       ELSE /\ LedgerRoom
            /\ issues' = [issues EXCEPT ![id].status = "resolved"]
            /\ users' = UserIncrement(users, issues[id].userId, ResolvePoints)
            /\ contributions' =
                   ContributionCreate(contributions, issues[id].userId,
                                      "issue_resolved", ResolvePoints, id)
            /\ resp' = Response("resolveReport", 200, issues[id].userId,
                                ResolvePoints, TRUE)

\* POST /api/badges
CreateBadge(caller, name, points, complete) ==
    /\ Authenticated(caller)
    /\ UNCHANGED <<users, contributions, userBadges, issues, votes, comments,
                   readings, clock, reqs, streakDays>>
    /\ IF ~complete \/ name \in DOMAIN badges
       THEN /\ resp' = Response("createBadge", 400, 0, 0, FALSE)
            /\ UNCHANGED badges
       ELSE /\ badges' = badges @@ (name :> [points |-> points])
            /\ resp' = Response("createBadge", 201, 0, 0, FALSE)

\* the lookup finds nothing
ExistingUserBadgeNone(ub, id, badgeId) == {}

\* prisma.userBadge.findUnique({ where: { userId_badgeId } })
ExistingUserBadge(ub, id, badgeId) ==
    {i \in 1..Len(ub) : ub[i].userId = id /\ ub[i].badgeId = badgeId}

\* the index is missing
UserBadgeUniqueDropped(ub, id, badgeId) == TRUE

\* the unique index user_badges_userId_badgeId_key admits the row
UserBadgeUnique(ub, id, badgeId) ==
    \A i \in 1..Len(ub) : ~(ub[i].userId = id /\ ub[i].badgeId = badgeId)

\* POST /api/users/:id/badges
UnlockBadge(caller, id, badgeId) ==
    /\ Authenticated(caller)
    /\ UNCHANGED <<badges, issues, votes, comments, readings, clock, reqs,
                   streakDays>>
    /\ IF badgeId = NoId
       THEN /\ resp' = Response("unlockBadge", 400, 0, 0, FALSE)
            /\ UNCHANGED <<users, contributions, userBadges>>
       ELSE IF id \notin DOMAIN users \/ badgeId \notin DOMAIN badges
       THEN /\ resp' = Response("unlockBadge", 404, 0, 0, FALSE)
            /\ UNCHANGED <<users, contributions, userBadges>>
       ELSE IF ExistingUserBadge(userBadges, id, badgeId) # {}
       THEN /\ resp' = Response("unlockBadge", 400, id, 0, TRUE)
            /\ UNCHANGED <<users, contributions, userBadges>>
       ELSE IF ~UserBadgeUnique(userBadges, id, badgeId)
       THEN /\ resp' = Response("unlockBadge", 500, 0, 0, FALSE)
            /\ UNCHANGED <<users, contributions, userBadges>>
       ELSE /\ LedgerRoom
            /\ userBadges' = Append(userBadges, [userId |-> id, badgeId |-> badgeId])
            /\ users' = UserIncrement(users, id, badges[badgeId].points)
            /\ contributions' =
                   ContributionCreate(contributions, id, "badge_unlocked",
                                      badges[badgeId].points, badgeId)
            /\ resp' = Response("unlockBadge", 201, id, badges[badgeId].points, FALSE)

\* the quotient is rounded to the nearest level instead of down
LevelOfRounded(points) == ((points + 50) \div PointsPerLevel) + 1

\* Math.floor(newPoints / 100) + 1
LevelOf(points) == (points \div PointsPerLevel) + 1

\* the total PUT /:id/points stores
NewPoints(current, points, action) ==
    IF action = "set" THEN points ELSE current + points

\* PUT /api/users/:id/points
UpdatePoints(caller, id, given, points, action) ==
    /\ Authenticated(caller)
    /\ UNCHANGED <<contributions, badges, userBadges, issues, votes, comments,
                   readings, clock, reqs, streakDays>>
    /\ IF ~given
       THEN /\ resp' = Response("updatePoints", 400, 0, 0, FALSE)
            /\ UNCHANGED users
       ELSE IF id \notin DOMAIN users
       THEN /\ resp' = Response("updatePoints", 404, 0, 0, FALSE)
            /\ UNCHANGED users
       ELSE LET newPoints == NewPoints(users[id].points, points, action)
                newLevel == LevelOf(newPoints)
            IN /\ newPoints <= MaxPoints
               /\ newPoints >= -MaxPoints
               /\ users' = [users EXCEPT ![id].points = newPoints,
                                         ![id].level = newLevel]
               /\ resp' = Response("updatePoints", 200, id, newPoints,
                                   newLevel > users[id].level)

\* Math.floor((now - lastActive) / (1000 * 60 * 60 * 24))
DaysSinceActive(now, lastActiveAt) == (now - lastActiveAt) \div HoursPerDay

\* a broken streak restarts from 0
NewStreakFromZero(currentStreak, daysSinceActive) ==
    IF daysSinceActive = 0 THEN currentStreak
    ELSE IF daysSinceActive = 1 THEN currentStreak + 1
    ELSE 0

\* the streak PUT /:id/streak stores
NewStreak(currentStreak, daysSinceActive) ==
    IF daysSinceActive = 0 THEN currentStreak
    ELSE IF daysSinceActive = 1 THEN currentStreak + 1
    ELSE 1

StreakBroken(daysSinceActive) == daysSinceActive # 0 /\ daysSinceActive # 1

\* the longest streak is not raised
NewLongestStale(newStreak, longestStreak) == longestStreak

\* Math.max(newStreak, user.longestStreak)
NewLongest(newStreak, longestStreak) ==
    IF newStreak > longestStreak THEN newStreak ELSE longestStreak

\* the bonus does not ask for a longer streak
StreakBonusDueAnyWeek(newStreak, currentStreak) ==
    newStreak % StreakBonusEvery = 0

\* the weekly streak bonus is due
StreakBonusDue(newStreak, currentStreak) ==
    newStreak > currentStreak /\ newStreak % StreakBonusEvery = 0

\* the calendar day of an instant
DayOf(now) == now \div HoursPerDay

\* PUT /api/users/:id/streak
UpdateStreak(caller, id) ==
    /\ Authenticated(caller)
    /\ UNCHANGED <<badges, userBadges, issues, votes, comments, readings, clock,
                   reqs>>
    /\ IF id \notin DOMAIN users
       THEN /\ resp' = Response("updateStreak", 404, 0, 0, FALSE)
            /\ UNCHANGED <<users, contributions, streakDays>>
       ELSE LET user == users[id]
                now == clock
                daysSinceActive == DaysSinceActive(now, user.lastActiveAt)
                newStreak == NewStreak(user.currentStreak, daysSinceActive)
                newLongest == NewLongest(newStreak, user.longestStreak)
                updated == [users EXCEPT ![id].currentStreak = newStreak,
                                         ![id].longestStreak = newLongest,
                                         ![id].lastActiveAt = now]
            IN /\ streakDays' = [streakDays EXCEPT ![id] = @ \cup {DayOf(now)}]
               /\ IF StreakBonusDue(newStreak, user.currentStreak)
                  THEN /\ LedgerRoom
                       /\ users' = UserIncrement(updated, id, newStreak)
                       /\ contributions' =
                              ContributionCreate(contributions, id, "streak_bonus",
                                                 newStreak, newStreak)
                  ELSE /\ users' = updated
                       /\ UNCHANGED contributions
               /\ resp' = Response("updateStreak", 200, id, newStreak,
                                   StreakBroken(daysSinceActive))

\* the streak still counts at the end of the grace period
StreakActiveInclusive(hoursSinceActive) == hoursSinceActive <= GraceHours

\* streakActive = hoursSinceActive < 48
StreakActive(hoursSinceActive) == hoursSinceActive < GraceHours

\* GET /api/users/:id/streak
GetStreak(id) ==
    /\ UNCHANGED <<store, clock, reqs, streakDays>>
    /\ IF id \notin DOMAIN users
       THEN resp' = Response("getStreak", 404, 0, 0, FALSE)
       ELSE LET user == users[id]
                hoursSinceActive == clock - user.lastActiveAt
                streakActive == StreakActive(hoursSinceActive)
            IN resp' = Response("getStreak", 200, id,
                                IF streakActive THEN user.currentStreak ELSE 0,
                                streakActive)

\* ---------------------------------------------------------- ranking and rank

\* the points the seed script gives its users: the three demo users, then the
\* administrator
SeedPointsOf(email) ==
    IF email = 1 THEN 450
    ELSE IF email = 2 THEN 320
    ELSE IF email = 3 THEN 280
    ELSE 1000

\* prisma/seed: prisma.user.upsert({ where: { email }, update: {}, create })
SeedUser(email) ==
    /\ UNCHANGED <<contributions, badges, userBadges, issues, votes, comments,
                   readings, clock, reqs, streakDays>>
    /\ resp' = NoResponse
    /\ IF email \in DOMAIN users
       THEN UNCHANGED users
       ELSE users' = users @@
                (email :> [NewUser(clock) EXCEPT
                              !.points = SeedPointsOf(email),
                              !.role = IF email \in 1..3 THEN "user" ELSE "admin"])

\* prisma/seed: prisma.issue.create for a seeded user; no contribution is written
SeedIssue(owner) ==
    /\ owner \in DOMAIN users
    /\ DOMAIN issues # IssueIds
    /\ issues' = issues @@
           (FreshId(IssueIds, DOMAIN issues) :>
               [userId |-> owner, severity |-> "high", status |-> "open"])
    /\ resp' = NoResponse
    /\ UNCHANGED <<users, contributions, badges, userBadges, votes, comments,
                   readings, clock, reqs, streakDays>>

\* every authenticated caller passes
MayChangeAnyone(row, caller) == TRUE

\* issue.userId !== req.user!.id && req.user!.role !== 'admin' is the refusal
MayChange(row, caller) ==
    row.userId = caller \/ users[caller].role = "admin"

\* PUT /api/issues/:id
UpdateIssue(caller, id, status) ==
    /\ Authenticated(caller)
    /\ UNCHANGED <<users, contributions, badges, userBadges, votes, comments,
                   readings, clock, reqs, streakDays>>
    /\ IF id \notin DOMAIN issues
       THEN /\ resp' = Response("updateIssue", 404, 0, 0, FALSE)
            /\ UNCHANGED issues
       ELSE IF ~MayChange(issues[id], caller)
       THEN /\ resp' = Response("updateIssue", 403, 0, 0, FALSE)
            /\ UNCHANGED issues
       ELSE /\ issues' = IF status = Missing THEN issues
                         ELSE [issues EXCEPT ![id].status = status]
            /\ resp' = Response("updateIssue", 200, caller, 0, FALSE)

\* the rows of a table that do not belong to issue id (ON DELETE CASCADE)
RECURSIVE NotOfIssue(_, _)
NotOfIssue(table, id) ==
    IF table = <<>> THEN <<>>
    ELSE (IF Head(table).issueId = id THEN <<>> ELSE <<Head(table)>>)
             \o NotOfIssue(Tail(table), id)

\* DELETE /api/issues/:id
DeleteIssue(caller, id) ==
    /\ Authenticated(caller)
    /\ UNCHANGED <<users, contributions, badges, userBadges, readings, clock,
                   reqs, streakDays>>
    /\ IF id \notin DOMAIN issues
       THEN /\ resp' = Response("deleteIssue", 404, 0, 0, FALSE)
            /\ UNCHANGED <<issues, votes, comments>>
       ELSE IF ~MayChange(issues[id], caller)
       THEN /\ resp' = Response("deleteIssue", 403, 0, 0, FALSE)
            /\ UNCHANGED <<issues, votes, comments>>
       ELSE /\ issues' = [i \in DOMAIN issues \ {id} |-> issues[i]]
            /\ votes' = NotOfIssue(votes, id)
            /\ comments' = NotOfIssue(comments, id)
            /\ resp' = Response("deleteIssue", 200, caller, 0, FALSE)

\* DELETE /api/issues/:issueId/comments/:commentId; a comment is named by its
\* place in the table
DeleteComment(caller, commentId) ==
    /\ Authenticated(caller)
    /\ UNCHANGED <<users, contributions, badges, userBadges, issues, votes,
                   readings, clock, reqs, streakDays>>
    /\ IF commentId \notin DOMAIN comments
       THEN /\ resp' = Response("deleteComment", 404, 0, 0, FALSE)
            /\ UNCHANGED comments
       ELSE IF ~MayChange(comments[commentId], caller)
       THEN /\ resp' = Response("deleteComment", 403, 0, 0, FALSE)
            /\ UNCHANGED comments
       ELSE /\ comments' = RemoveAt(comments, commentId)
            /\ resp' = Response("deleteComment", 200, caller, 0, FALSE)

\* users with the same points are counted too
UsersAboveOrEqual(us, points) ==
    Cardinality({u \in DOMAIN us : us[u].points >= points})

\* prisma.user.count({ where: { points: { gt: user.points } } })
UsersAbove(us, points) ==
    Cardinality({u \in DOMAIN us : us[u].points > points})

\* the answer of a handler that looks a user up and reports rank: usersAbove + 1
RankResponse(op, id) ==
    IF id \notin DOMAIN users
    THEN Response(op, 404, 0, 0, FALSE)
    ELSE Response(op, 200, id, UsersAbove(users, users[id].points) + 1, FALSE)

\* GET /api/users/:id/points
GetUserPoints(id) ==
    /\ resp' = RankResponse("getUserPoints", id)
    /\ UNCHANGED <<store, clock, reqs, streakDays>>

\* the % of the language: the remainder takes the sign of the dividend
Remainder(a, b) == IF a >= 0 THEN a % b ELSE 0 - ((0 - a) % b)

\* const pointsForNextLevel = user.level * 100
PointsForNextLevel(user) == user.level * PointsPerLevel

\* const pointsInCurrentLevel = user.points % 100
PointsInCurrentLevel(user) == Remainder(user.points, PointsPerLevel)

\* GET /api/users/:id/gamification
GetGamification(id) ==
    /\ resp' = IF id \notin DOMAIN users
               THEN RankResponse("getGamification", id)
               ELSE [op |-> "getGamification", status |-> 200, user |-> id,
                     amount |-> UsersAbove(users, users[id].points) + 1,
                     flag |-> FALSE,
                     pointsToNextLevel |->
                         PointsForNextLevel(users[id])
                             - PointsInCurrentLevel(users[id])]
    /\ UNCHANGED <<store, clock, reqs, streakDays>>

\* GET /api/stats/user/:userId
GetUserStats(userId) ==
    /\ resp' = RankResponse("getUserStats", userId)
    /\ UNCHANGED <<store, clock, reqs, streakDays>>

\* GET /api/stats/me
GetMyStats(caller) ==
    /\ Authenticated(caller)
    /\ resp' = RankResponse("getMyStats", caller)
    /\ UNCHANGED <<store, clock, reqs, streakDays>>

\* the orders are ascending
SortedByPointsAsc(us) ==
    {o \in [1..Cardinality(DOMAIN us) -> DOMAIN us] :
        \A i, j \in DOMAIN o :
            i < j => o[i] # o[j] /\ us[o[i]].points <= us[o[j]].points}

\* orderBy: { points: 'desc' }: the orders of all rows the store may return;
\* rows with equal points come in any order
SortedByPoints(us) ==
    {o \in [1..Cardinality(DOMAIN us) -> DOMAIN us] :
        \A i, j \in DOMAIN o :
            i < j => o[i] # o[j] /\ us[o[i]].points >= us[o[j]].points}

\* the rank is counted within the page
RankOfPage(skip, index) == index + 1

\* rank: skip + index + 1, index counted from 0
RankOf(skip, index) == skip + index + 1

\* new Date(); setDate(1); setHours(0, 0, 0, 0), with months of 30 days
StartOfMonth(now) == now - (now % HoursPerMonth)

\* dateFilter: { createdAt: { gte: startOfMonth } } for type monthly, {} otherwise
DateFilter(type, now) ==
    IF type = "monthly" THEN [gte |-> StartOfMonth(now)] ELSE [gte |-> 0]

\* _count: { select: { contributions: true } }
CountOf(table, u) == Cardinality({i \in 1..Len(table) : table[i].userId = u})

\* GET /api/ranking
GetRanking(type, page, limit) ==
    /\ UNCHANGED <<store, clock, reqs, streakDays>>
    /\ LET take == limit
           skip == (page - 1) * take
           dateFilter == DateFilter(type, clock)
           total == Cardinality(DOMAIN users)
       IN \E order \in SortedByPoints(users) :
             LET last == IF skip + take < total THEN skip + take ELSE total
                 found == SubSeq(order, skip + 1, last)
                 ranking ==
                     [index \in 1..Len(found) |->
                         [rank |-> RankOf(skip, index - 1),
                          id |-> found[index],
                          points |-> users[found[index]].points,
                          contributions |-> CountOf(contributions, found[index])]]
             IN resp' = [op |-> "getRanking", status |-> 200, user |-> 0,
                         amount |-> total, flag |-> FALSE, type |-> type,
                         page |-> page, limit |-> take, ranking |-> ranking]

\* time passes to the first instant of the next month
MonthTurns ==
    /\ StartOfMonth(clock) + HoursPerMonth <= MaxMonthClock
    /\ clock' = StartOfMonth(clock) + HoursPerMonth
    /\ UNCHANGED <<store, resp, reqs, streakDays>>

\* time passes
Tick(max) ==
    /\ \E h \in TickHours : clock + h <= max /\ clock' = clock + h
    /\ UNCHANGED <<store, resp, reqs, streakDays>>

\* ------------------------------------------------------------- specifications

\* the reward handlers, each request served to completion before the next
Next ==
    \/ \E email \in UserIds, complete \in BOOLEAN : Register(email, complete)
    \/ \E caller \in UserIds, body \in IssueBodyIn :
          CreateIssue(caller, body.severity, body.category, body.complete)
    \/ \E caller \in UserIds, id \in IssueIds, type \in VoteTypeIn :
          Vote(caller, id, type)
    \/ \E caller \in UserIds, id \in IssueIds, content \in ContentIn :
          AddComment(caller, id, content)
    \/ \E caller \in UserIds, complete \in BOOLEAN : AddReading(caller, complete)
    \/ \E caller \in UserIds, complete \in BOOLEAN : AnalyzeReport(caller, complete)
    \/ \E id \in IssueIds : ResolveReport(id)
    \/ \E caller \in UserIds, id \in UserIds, given \in BOOLEAN, points \in PointsIn,
          action \in ActionIn : UpdatePoints(caller, id, given, points, action)

Spec == Init /\ [][Next]_vars

\* the badge handlers, each request served to completion before the next
NextBadge ==
    \/ \E email \in UserIds : Register(email, TRUE)
    \/ \E caller \in UserIds, name \in BadgeIds, points \in BadgePointsIn,
          complete \in BOOLEAN : CreateBadge(caller, name, points, complete)
    \/ \E caller \in UserIds, id \in UserIds, badgeId \in BadgeIds \cup {NoId} :
          UnlockBadge(caller, id, badgeId)
    \/ \E caller \in UserIds, complete \in BOOLEAN : AddReading(caller, complete)

SpecBadge == Init /\ [][NextBadge]_vars

\* the streak handler over a span of days
NextStreak ==
    \/ \E email \in StreakUsers : Register(email, TRUE)
    \/ \E caller \in StreakUsers, id \in UserIds : UpdateStreak(caller, id)
    \/ \E id \in UserIds : GetStreak(id)
    \/ Tick(MaxClock)

SpecStreak == Init /\ [][NextStreak]_vars

\* the points handler of one user, with awards in between
NextLevel ==
    \/ \E email \in LevelUsers : Register(email, TRUE)
    \/ \E caller \in LevelUsers : AddReading(caller, TRUE)
    \/ \E caller \in LevelUsers, id \in UserIds, given \in BOOLEAN,
          points \in LevelPointsIn, action \in ActionIn :
          UpdatePoints(caller, id, given, points, action)

SpecLevel == Init /\ [][NextLevel]_vars

\* the handlers that validate their input, driven by one registered user with
\* well-formed and malformed requests
NextErr ==
    \/ \E email \in ErrUsers : Register(email, TRUE)
    \/ \E caller \in ErrUsers, body \in IssueBodyIn :
          CreateIssue(caller, body.severity, body.category, body.complete)
    \/ \E caller \in ErrUsers, id \in IssueIds, type \in VoteTypeIn :
          Vote(caller, id, type)
    \/ \E caller \in ErrUsers, id \in IssueIds, content \in ContentIn :
          AddComment(caller, id, content)
    \/ \E caller \in ErrUsers, name \in BadgeIds, points \in BadgePointsIn :
          CreateBadge(caller, name, points, TRUE)
    \/ \E caller \in ErrUsers, id \in UserIds, badgeId \in BadgeIds \cup {NoId} :
          UnlockBadge(caller, id, badgeId)
    \/ \E caller \in ErrUsers, id \in UserIds, given \in BOOLEAN,
          points \in PointsIn, action \in ActionIn :
          UpdatePoints(caller, id, given, points, action)
    \/ \E caller \in ErrUsers, id \in UserIds : UpdateStreak(caller, id)

SpecErr == Init /\ [][NextErr]_vars

\* the seeded users, their points rewritten, and the views that rank them
NextRanking ==
    \/ \E email \in RankUserIds : SeedUser(email)
    \/ \E caller \in RankUserIds, id \in RankUserIds, points \in PointsIn :
          UpdatePoints(caller, id, TRUE, points, "set")
    \/ \E type \in RankTypeIn, page \in PageIn, limit \in LimitIn :
          GetRanking(type, page, limit)
    \/ \E id \in RankUserIds : GetUserPoints(id)
    \/ \E id \in RankUserIds : GetGamification(id)
    \/ \E userId \in RankUserIds : GetUserStats(userId)
    \/ \E caller \in RankUserIds : GetMyStats(caller)

SpecRanking == Init /\ [][NextRanking]_vars

\* votes on, and resolutions of, the issues of the seeded store
NextSeeded ==
    \/ \E email \in UserIds : SeedUser(email)
    \/ \E owner \in UserIds : SeedIssue(owner)
    \/ \E caller \in UserIds, id \in IssueIds, type \in VoteTypeIn :
          Vote(caller, id, type)
    \/ \E id \in IssueIds : ResolveReport(id)

SpecSeeded == Init /\ [][NextSeeded]_vars

\* issues and comments of the demo users and the administrator, changed and
\* removed
NextOwner ==
    \/ \E email \in OwnerUserIds : SeedUser(email)
    \/ \E owner \in UserIds : SeedIssue(owner)
    \/ \E caller \in OwnerUserIds, id \in IssueIds :
          AddComment(caller, id, "text")
    \/ \E caller \in UserIds, id \in IssueIds : Vote(caller, id, "upvote")
    \/ \E caller \in OwnerUserIds, id \in IssueIds, status \in StatusIn :
          UpdateIssue(caller, id, status)
    \/ \E caller \in OwnerUserIds, id \in IssueIds : DeleteIssue(caller, id)
    \/ \E caller \in OwnerUserIds, commentId \in 1..MaxContrib :
          DeleteComment(caller, commentId)

SpecOwner == Init /\ [][NextOwner]_vars

\* awards in two consecutive months, and the ranking views
NextMonthly ==
    \/ \E email \in UserIds : Register(email, TRUE)
    \/ \E caller \in UserIds : AddReading(caller, TRUE)
    \/ \E type \in RankTypeIn : GetRanking(type, 1, 10)
    \/ MonthTurns

SpecMonthly == Init /\ [][NextMonthly]_vars

\* ------------------------------------------- handlers, one storage call per step

\* a row of users that has not been read
NoRow == [role |-> "none", points |-> 0, level |-> 0, currentStreak |-> 0,
          longestStreak |-> 0, lastActiveAt |-> 0]

\* a request in flight: the handler, the storage call it awaits, its parameters
\* and the values it has read
Request(op, pc, caller, id, arg, severity, status) ==
    [op |-> op, pc |-> pc, caller |-> caller, id |-> id, arg |-> arg,
     severity |-> severity, user |-> NoRow, val |-> 0, now |-> 0,
     status |-> status]

Arrive(req) == Len(reqs) < MaxReqs /\ reqs' = Append(reqs, req)

\* request r awaits the storage call pc of handler op
Awaits(r, op, pc) ==
    /\ r \in DOMAIN reqs
    /\ reqs[r].status = 0
    /\ reqs[r].op = op
    /\ reqs[r].pc = pc

Goto(r, pc) == reqs' = [reqs EXCEPT ![r].pc = pc]

Reply(r, status) == reqs' = [reqs EXCEPT ![r].status = status]

\* a storage call rejects (the connection fails, the query times out): the
\* handler's catch answers 500
Throw(r) ==
    /\ r \in DOMAIN reqs
    /\ reqs[r].status = 0
    /\ Reply(r, 500)
    /\ UNCHANGED <<store, clock, resp, streakDays>>

\* POST /api/users/:id/badges
UnlockArrive(caller, id, badgeId) ==
    /\ Authenticated(caller)
    /\ IF badgeId = NoId
       THEN Arrive(Request("unlockBadge", "findUser", caller, id, badgeId, "", 400))
       ELSE Arrive(Request("unlockBadge", "findUser", caller, id, badgeId, "", 0))
    /\ UNCHANGED <<store, clock, resp, streakDays>>

UnlockFindUser(r) ==
    /\ Awaits(r, "unlockBadge", "findUser")
    /\ IF reqs[r].id \notin DOMAIN users THEN Reply(r, 404) ELSE Goto(r, "findBadge")
    /\ UNCHANGED <<store, clock, resp, streakDays>>

UnlockFindBadge(r) ==
    /\ Awaits(r, "unlockBadge", "findBadge")
    /\ IF reqs[r].arg \notin DOMAIN badges
       THEN Reply(r, 404)
       ELSE reqs' = [reqs EXCEPT ![r].pc = "findExisting",
                                 ![r].val = badges[reqs[r].arg].points]
    /\ UNCHANGED <<store, clock, resp, streakDays>>

UnlockFindExisting(r) ==
    /\ Awaits(r, "unlockBadge", "findExisting")
    /\ IF ExistingUserBadge(userBadges, reqs[r].id, reqs[r].arg) # {}
       THEN Reply(r, 400)
       ELSE Goto(r, "createUserBadge")
    /\ UNCHANGED <<store, clock, resp, streakDays>>

UnlockCreate(r) ==
    /\ Awaits(r, "unlockBadge", "createUserBadge")
    /\ IF UserBadgeUnique(userBadges, reqs[r].id, reqs[r].arg)
       THEN /\ userBadges' = Append(userBadges, [userId |-> reqs[r].id,
                                                  badgeId |-> reqs[r].arg])
            /\ Goto(r, "incrementPoints")
       ELSE /\ Reply(r, 500)
            /\ UNCHANGED userBadges
    /\ UNCHANGED <<users, contributions, badges, issues, votes, comments, readings,
                   clock, resp, streakDays>>

UnlockIncrement(r) ==
    /\ Awaits(r, "unlockBadge", "incrementPoints")
    /\ users' = UserIncrement(users, reqs[r].id, reqs[r].val)
    /\ Goto(r, "createContribution")
    /\ UNCHANGED <<contributions, badges, userBadges, issues, votes, comments,
                   readings, clock, resp, streakDays>>

UnlockContribution(r) ==
    /\ Awaits(r, "unlockBadge", "createContribution")
    /\ LedgerRoom
    /\ contributions' = ContributionCreate(contributions, reqs[r].id,
                                           "badge_unlocked", reqs[r].val, reqs[r].arg)
    /\ reqs' = [reqs EXCEPT ![r].pc = "done", ![r].status = 201]
    /\ UNCHANGED <<users, badges, userBadges, issues, votes, comments, readings,
                   clock, resp, streakDays>>

\* POST /api/issues
IssueArrive(caller, severity, category, complete) ==
    /\ Authenticated(caller)
    /\ IF \/ ~complete \/ category = Missing \/ severity = Missing
          \/ category \notin validCategories
          \/ severity \notin validSeverities
       THEN Arrive(Request("createIssue", "createIssue", caller, NoId, NoId,
                           severity, 400))
       ELSE Arrive(Request("createIssue", "createIssue", caller, NoId, NoId,
                           severity, 0))
    /\ UNCHANGED <<store, clock, resp, streakDays>>

IssueCreate(r) ==
    /\ Awaits(r, "createIssue", "createIssue")
    /\ DOMAIN issues # IssueIds
    /\ LET id == FreshId(IssueIds, DOMAIN issues)
       IN /\ issues' = issues @@
               (id :> [userId |-> reqs[r].caller, severity |-> reqs[r].severity,
                       status |-> "open"])
          /\ reqs' = [reqs EXCEPT ![r].pc = "createContribution", ![r].arg = id,
                                  ![r].val = ReportPoints(reqs[r].severity)]
    /\ UNCHANGED <<users, contributions, badges, userBadges, votes, comments,
                   readings, clock, resp, streakDays>>

IssueContribution(r) ==
    /\ Awaits(r, "createIssue", "createContribution")
    /\ LedgerRoom
    /\ contributions' = ContributionCreate(contributions, reqs[r].caller,
                                           "issue_reported", reqs[r].val, reqs[r].arg)
    /\ Goto(r, "incrementPoints")
    /\ UNCHANGED <<users, badges, userBadges, issues, votes, comments, readings,
                   clock, resp, streakDays>>

IssueIncrement(r) ==
    /\ Awaits(r, "createIssue", "incrementPoints")
    /\ users' = UserIncrement(users, reqs[r].caller, reqs[r].val)
    /\ reqs' = [reqs EXCEPT ![r].pc = "done", ![r].status = 201]
    /\ UNCHANGED <<contributions, badges, userBadges, issues, votes, comments,
                   readings, clock, resp, streakDays>>

\* POST /api/institution/reports/:id/resolve
ResolveArrive(id) ==
    /\ Arrive(Request("resolveReport", "findIssue", NoId, id, NoId, "", 0))
    /\ UNCHANGED <<store, clock, resp, streakDays>>

ResolveFind(r) ==
    /\ Awaits(r, "resolveReport", "findIssue")
    /\ IF reqs[r].id \notin DOMAIN issues
       THEN Reply(r, 404)
       ELSE reqs' = [reqs EXCEPT ![r].pc = "updateIssue",
                                 ![r].val = issues[reqs[r].id].userId]
    /\ UNCHANGED <<store, clock, resp, streakDays>>

ResolveUpdate(r) ==
    /\ Awaits(r, "resolveReport", "updateIssue")
    /\ issues' = [issues EXCEPT ![reqs[r].id].status = "resolved"]
    /\ Goto(r, "incrementPoints")
    /\ UNCHANGED <<users, contributions, badges, userBadges, votes, comments,
                   readings, clock, resp, streakDays>>

ResolveIncrement(r) ==
    /\ Awaits(r, "resolveReport", "incrementPoints")
    /\ users' = UserIncrement(users, reqs[r].val, ResolvePoints)
    /\ Goto(r, "createContribution")
    /\ UNCHANGED <<contributions, badges, userBadges, issues, votes, comments,
                   readings, clock, resp, streakDays>>

ResolveContribution(r) ==
    /\ Awaits(r, "resolveReport", "createContribution")
    /\ LedgerRoom
    /\ contributions' = ContributionCreate(contributions, reqs[r].val,
                                           "issue_resolved", ResolvePoints, reqs[r].id)
    /\ reqs' = [reqs EXCEPT ![r].pc = "done", ![r].status = 200]
    /\ UNCHANGED <<users, badges, userBadges, issues, votes, comments, readings,
                   clock, resp, streakDays>>

\* the rewarding handlers with requests in flight side by side; an account or a
\* badge is set up by a request served to completion
NextConc ==
    \/ \E email \in UserIds : Register(email, TRUE)
    \/ \E caller \in UserIds, name \in BadgeIds, points \in BadgePointsIn :
          CreateBadge(caller, name, points, TRUE)
    \/ \E caller \in UserIds, id \in UserIds, badgeId \in BadgeIds \cup {NoId} :
          UnlockArrive(caller, id, badgeId)
    \/ \E r \in 1..MaxReqs : UnlockFindUser(r)
    \/ \E r \in 1..MaxReqs : UnlockFindBadge(r)
    \/ \E r \in 1..MaxReqs : UnlockFindExisting(r)
    \/ \E r \in 1..MaxReqs : UnlockCreate(r)
    \/ \E r \in 1..MaxReqs : UnlockIncrement(r)
    \/ \E r \in 1..MaxReqs : UnlockContribution(r)
    \/ \E caller \in UserIds, body \in IssueBodyIn :
          IssueArrive(caller, body.severity, body.category, body.complete)
    \/ \E r \in 1..MaxReqs : IssueCreate(r)
    \/ \E r \in 1..MaxReqs : IssueContribution(r)
    \/ \E r \in 1..MaxReqs : IssueIncrement(r)
    \/ \E id \in IssueIds : ResolveArrive(id)
    \/ \E r \in 1..MaxReqs : ResolveFind(r)
    \/ \E r \in 1..MaxReqs : ResolveUpdate(r)
    \/ \E r \in 1..MaxReqs : ResolveIncrement(r)
    \/ \E r \in 1..MaxReqs : ResolveContribution(r)
    \/ \E r \in 1..MaxReqs : Throw(r)

SpecConc == Init /\ [][NextConc]_vars

\* PUT /api/users/:id/streak
StreakArrive(caller, id) ==
    /\ Authenticated(caller)
    /\ Arrive(Request("updateStreak", "findUser", caller, id, NoId, "", 0))
    /\ UNCHANGED <<store, clock, resp, streakDays>>

StreakFind(r) ==
    /\ Awaits(r, "updateStreak", "findUser")
    /\ IF reqs[r].id \notin DOMAIN users
       THEN Reply(r, 404)
       ELSE reqs' = [reqs EXCEPT ![r].pc = "updateStreak",
                                 ![r].user = users[reqs[r].id],
                                 ![r].now = clock]
    /\ UNCHANGED <<store, clock, resp, streakDays>>

StreakUpdate(r) ==
    /\ Awaits(r, "updateStreak", "updateStreak")
    /\ LET id == reqs[r].id
           user == reqs[r].user
           now == reqs[r].now
           daysSinceActive == DaysSinceActive(now, user.lastActiveAt)
           newStreak == NewStreak(user.currentStreak, daysSinceActive)
           newLongest == NewLongest(newStreak, user.longestStreak)
       IN /\ users' = [users EXCEPT ![id].currentStreak = newStreak,
                                    ![id].longestStreak = newLongest,
                                    ![id].lastActiveAt = now]
          /\ streakDays' = [streakDays EXCEPT ![id] = @ \cup {DayOf(now)}]
          /\ IF StreakBonusDue(newStreak, user.currentStreak)
             THEN reqs' = [reqs EXCEPT ![r].pc = "incrementPoints",
                                       ![r].val = newStreak]
             ELSE reqs' = [reqs EXCEPT ![r].pc = "done", ![r].val = newStreak,
                                       ![r].status = 200]
    /\ UNCHANGED <<contributions, badges, userBadges, issues, votes, comments,
                   readings, clock, resp>>

StreakIncrement(r) ==
    /\ Awaits(r, "updateStreak", "incrementPoints")
    /\ users' = UserIncrement(users, reqs[r].id, reqs[r].val)
    /\ Goto(r, "createContribution")
    /\ UNCHANGED <<contributions, badges, userBadges, issues, votes, comments,
                   readings, clock, resp, streakDays>>

StreakContribution(r) ==
    /\ Awaits(r, "updateStreak", "createContribution")
    /\ LedgerRoom
    /\ contributions' = ContributionCreate(contributions, reqs[r].id,
                                           "streak_bonus", reqs[r].val, reqs[r].val)
    /\ reqs' = [reqs EXCEPT ![r].pc = "done", ![r].status = 200]
    /\ UNCHANGED <<users, badges, userBadges, issues, votes, comments, readings,
                   clock, resp, streakDays>>

\* a store with one account, at the start of a streak or six days into one
InitStreakConc ==
    /\ \E streak \in {0, StreakBonusEvery - 1} :
          /\ users = (1 :> [NewUser(0) EXCEPT !.points = RegisterPoints,
                                              !.currentStreak = streak,
                                              !.longestStreak = streak])
          /\ streakDays = [u \in UserIds |->
                              IF u = 1 /\ streak > 0 THEN (1 - streak)..0 ELSE {}]
    /\ clock = 0
    /\ contributions = <<ContribRow(1, "account_created", RegisterPoints, 0)>>
    /\ badges = <<>>
    /\ userBadges = <<>>
    /\ issues = <<>>
    /\ votes = <<>>
    /\ comments = <<>>
    /\ readings = 0
    /\ resp = NoResponse
    /\ reqs = <<>>

\* streak updates in flight side by side, while time passes and points are awarded
NextStreakConc ==
    \/ \E email \in UserIds : Register(email, TRUE)
    \/ \E caller \in UserIds : AddReading(caller, TRUE)
    \/ \E caller \in UserIds, id \in UserIds : StreakArrive(caller, id)
    \/ \E r \in 1..MaxReqs : StreakFind(r)
    \/ \E r \in 1..MaxReqs : StreakUpdate(r)
    \/ \E r \in 1..MaxReqs : StreakIncrement(r)
    \/ \E r \in 1..MaxReqs : StreakContribution(r)
    \/ \E r \in 1..MaxReqs : Throw(r)
    \/ Tick(MaxConcClock)

SpecStreakConc == InitStreakConc /\ [][NextStreakConc]_vars

\* PUT /api/users/:id/points: the request, with the action of its body
PointsRequest(caller, id, points, action, status) ==
    [op |-> "updatePoints", pc |-> "findUser", caller |-> caller, id |-> id,
     arg |-> points, severity |-> "", user |-> NoRow, val |-> 0, now |-> 0,
     status |-> status, action |-> action]

PointsArrive(caller, id, given, points, action) ==
    /\ Authenticated(caller)
    /\ Arrive(PointsRequest(caller, id, points, action, IF given THEN 0 ELSE 400))
    /\ UNCHANGED <<store, clock, resp, streakDays>>

PointsFind(r) ==
    /\ Awaits(r, "updatePoints", "findUser")
    /\ IF reqs[r].id \notin DOMAIN users
       THEN Reply(r, 404)
       ELSE reqs' = [reqs EXCEPT ![r].pc = "updateUser",
                                 ![r].user = users[reqs[r].id]]
    /\ UNCHANGED <<store, clock, resp, streakDays>>

PointsUpdate(r) ==
    /\ Awaits(r, "updatePoints", "updateUser")
    /\ LET id == reqs[r].id
           newPoints == NewPoints(reqs[r].user.points, reqs[r].arg, reqs[r].action)
           newLevel == LevelOf(newPoints)
       IN /\ newPoints <= MaxPoints
          /\ newPoints >= -MaxPoints
          /\ users' = [users EXCEPT ![id].points = newPoints,
                                    ![id].level = newLevel]
          /\ reqs' = [reqs EXCEPT ![r].pc = "done", ![r].val = newPoints,
                                  ![r].status = 200]
    /\ UNCHANGED <<contributions, badges, userBadges, issues, votes, comments,
                   readings, clock, resp, streakDays>>

\* requests of the four kinds that write a user's record, in flight side by
\* side for one user or for two, every storage call succeeding, over one day
NextFrame ==
    \/ \E email \in UserIds : Register(email, TRUE)
    \/ \E caller \in FrameCallers, name \in BadgeIds, points \in BadgePointsIn :
          CreateBadge(caller, name, points, TRUE)
    \/ \E caller \in FrameCallers, id \in UserIds, badgeId \in BadgeIds :
          UnlockArrive(caller, id, badgeId)
    \/ \E r \in 1..MaxReqs : UnlockFindUser(r)
    \/ \E r \in 1..MaxReqs : UnlockFindBadge(r)
    \/ \E r \in 1..MaxReqs : UnlockFindExisting(r)
    \/ \E r \in 1..MaxReqs : UnlockCreate(r)
    \/ \E r \in 1..MaxReqs : UnlockIncrement(r)
    \/ \E r \in 1..MaxReqs : UnlockContribution(r)
    \/ \E caller \in UserIds : IssueArrive(caller, "high", "fire", TRUE)
    \/ \E r \in 1..MaxReqs : IssueCreate(r)
    \/ \E r \in 1..MaxReqs : IssueContribution(r)
    \/ \E r \in 1..MaxReqs : IssueIncrement(r)
    \/ \E caller \in FrameCallers, id \in UserIds : StreakArrive(caller, id)
    \/ \E r \in 1..MaxReqs : StreakFind(r)
    \/ \E r \in 1..MaxReqs : StreakUpdate(r)
    \/ \E r \in 1..MaxReqs : StreakIncrement(r)
    \/ \E r \in 1..MaxReqs : StreakContribution(r)
    \/ \E caller \in FrameCallers, id \in UserIds, points \in PointsIn :
          PointsArrive(caller, id, TRUE, points, "add")
    \/ \E r \in 1..MaxReqs : PointsFind(r)
    \/ \E r \in 1..MaxReqs : PointsUpdate(r)
    \/ Tick(HoursPerDay)

SpecFrame == InitStreakConc /\ [][NextFrame]_vars

\* ------------------------------------------------------------------ claims

\* this step appends exactly one contribution (u, type, pts) and raises the
\* points of u by pts
AwardedOnce(u, type, pts) ==
    /\ Len(contributions') = Len(contributions) + 1
    /\ SubSeq(contributions', 1, Len(contributions)) = contributions
    /\ LET row == contributions'[Len(contributions')]
       IN row.userId = u /\ row.type = type /\ row.points = pts
    /\ u \in DOMAIN users'
    /\ users'[u].points = (IF u \in DOMAIN users THEN users[u].points ELSE 0) + pts

\* C1: every successful rewarded action appends exactly one Contribution row for
\* the rewarded user, with the action's type and amount, and raises that user's
\* points by the same amount: registration 10, issue report 50 / 30 / 20 by
\* severity, new confirm vote 5, comment 5, climate reading 10, AI analysis 5,
\* institutional resolve 50 to the issue's reporter.
C1_RewardedActions ==
    [][/\ \A email \in UserIds :
              Register(email, TRUE) /\ resp'.status = 201
                  => AwardedOnce(email, "account_created", 10)
       /\ \A caller \in UserIds, body \in IssueBodyIn :
              CreateIssue(caller, body.severity, body.category, body.complete)
                /\ resp'.status = 201
                  => AwardedOnce(caller, "issue_reported",
                                 IF body.severity = "critical" THEN 50
                                 ELSE IF body.severity = "high" THEN 30 ELSE 20)
       /\ \A caller \in UserIds, id \in IssueIds :
              Vote(caller, id, "confirm") /\ resp'.status = 200 /\ resp'.flag
                  => AwardedOnce(caller, "issue_confirmed", 5)
       /\ \A caller \in UserIds, id \in IssueIds :
              AddComment(caller, id, "text") /\ resp'.status = 201
                  => AwardedOnce(caller, "comment", 5)
       /\ \A caller \in UserIds :
              AddReading(caller, TRUE) /\ resp'.status = 201
                  => AwardedOnce(caller, "data_submitted", 10)
       /\ \A caller \in UserIds :
              AnalyzeReport(caller, TRUE) /\ resp'.status = 200
                  => AwardedOnce(caller, "ai_analysis", 5)
       /\ \A id \in IssueIds :
              ResolveReport(id) /\ resp'.status = 200
                  => AwardedOnce(issues[id].userId, "issue_resolved", 50)
      ]_vars

\* an issue a user reported has been resolved and its reporter rewarded
C1_Witness ==
    /\ resp.op = "resolveReport" /\ resp.status = 200
    /\ \E i \in 1..Len(contributions), j \in 1..Len(contributions) :
          /\ contributions[i].type = "issue_reported"
          /\ contributions[j].type = "issue_resolved"
          /\ contributions[i].userId = contributions[j].userId
          /\ users[contributions[j].userId].points >= 80

\* C2: with no request in flight, every user's points field equals the sum of
\* the points of that user's Contribution rows.
C2_LedgerSum ==
    \A u \in DOMAIN users : users[u].points = SumPoints(contributions, u)

\* C3: an award is atomic: in no reachable state, the states between the storage
\* steps of a handler in flight and those a failed storage call leaves behind
\* included, does a user have a Contribution row whose points are not in the
\* user's points, or points of an award with no Contribution row.
C3_AtomicAward ==
    \A u \in DOMAIN users :
        /\ SumPoints(contributions, u) <= users[u].points
        /\ users[u].points <= SumPoints(contributions, u)

\* the badge_unlocked contributions of user u for badge b
UnlockContributions(u, b) ==
    {i \in 1..Len(contributions) : /\ contributions[i].userId = u
                                    /\ contributions[i].type = "badge_unlocked"
                                    /\ contributions[i].ref = b}

\* the sum of the points of the badges user u has unlocked
RECURSIVE UnlockedPoints(_, _)
UnlockedPoints(ub, u) ==
    IF ub = <<>> THEN 0
    ELSE (IF Head(ub).userId = u THEN badges[Head(ub).badgeId].points ELSE 0)
         + UnlockedPoints(Tail(ub), u)

\* the sum of the points user u earned otherwise than by unlocking a badge
RECURSIVE OtherPoints(_, _)
OtherPoints(c, u) ==
    IF c = <<>> THEN 0
    ELSE (IF Head(c).userId = u /\ Head(c).type # "badge_unlocked"
          THEN Head(c).points ELSE 0) + OtherPoints(Tail(c), u)

\* C4: called one after the other, two unlocks of the same badge for the same
\* user award the badge's points once and leave one UserBadge row and one
\* badge_unlocked Contribution; the second call reports a conflict and changes
\* no state.
C4_UnlockIdempotent ==
    /\ [](\A u \in DOMAIN users :
            /\ users[u].points = OtherPoints(contributions, u)
                                    + UnlockedPoints(userBadges, u)
            /\ \A b \in DOMAIN badges :
                  /\ Cardinality(ExistingUserBadge(userBadges, u, b)) <= 1
                  /\ Cardinality(UnlockContributions(u, b))
                        = Cardinality(ExistingUserBadge(userBadges, u, b)))
    /\ [][\A caller \in UserIds, id \in UserIds, badgeId \in BadgeIds :
            (/\ UnlockBadge(caller, id, badgeId)
             /\ \E i \in 1..Len(userBadges) :
                   userBadges[i].userId = id /\ userBadges[i].badgeId = badgeId)
                => /\ resp'.status = 400
                   /\ resp'.flag
                   /\ UNCHANGED store]_vars

\* the second unlock of a badge has been answered
C4_Witness ==
    /\ resp.op = "unlockBadge" /\ resp.status = 400 /\ resp.flag
    /\ Cardinality(ExistingUserBadge(userBadges, resp.user, 1)) = 1

\* the unlock requests for (u, b) that have added the badge's points
UnlockAdded(u, b) ==
    {r \in DOMAIN reqs :
        /\ reqs[r].op = "unlockBadge" /\ reqs[r].id = u /\ reqs[r].arg = b
        /\ reqs[r].pc \in {"createContribution", "done"}}

\* C5: under every interleaving of concurrent unlock requests for the same
\* (user, badge), at most one UserBadge row exists for the pair, the badge's
\* points are added at most once and at most one badge_unlocked Contribution
\* exists for the pair.
C5_UnlockOnceConcurrent ==
    \A u \in UserIds, b \in BadgeIds :
        /\ Cardinality(ExistingUserBadge(userBadges, u, b)) <= 1
        /\ Cardinality(UnlockAdded(u, b)) <= 1
        /\ Cardinality(UnlockContributions(u, b)) <= 1

\* two unlocks of one pair have both passed the lookup; one has created the row
\* and the other is about to create it
C5_Witness ==
    \E r1 \in DOMAIN reqs, r2 \in DOMAIN reqs :
        /\ r1 # r2
        /\ reqs[r1].op = "unlockBadge" /\ reqs[r2].op = "unlockBadge"
        /\ reqs[r1].id = reqs[r2].id /\ reqs[r1].arg = reqs[r2].arg
        /\ reqs[r1].status = 201
        /\ reqs[r2].status = 500 /\ reqs[r2].pc = "createUserBadge"

\* C6: a successful unlock creates exactly one UserBadge row, raises the user's
\* points by exactly badge.points, appends exactly one badge_unlocked
\* Contribution of badge.points and reports pointsEarned = badge.points.
C6_UnlockEffect ==
    [][\A caller \in UserIds, id \in UserIds, badgeId \in BadgeIds :
          UnlockBadge(caller, id, badgeId) /\ resp'.status = 201
              => /\ userBadges' = Append(userBadges, [userId |-> id,
                                                       badgeId |-> badgeId])
                 /\ ExistingUserBadge(userBadges, id, badgeId) = {}
                 /\ AwardedOnce(id, "badge_unlocked", badges[badgeId].points)
                 /\ contributions'[Len(contributions')].ref = badgeId
                 /\ resp'.amount = badges[badgeId].points]_vars

\* a badge has just been unlocked for a user who had none
C6_Witness ==
    /\ resp.op = "unlockBadge" /\ resp.status = 201 /\ resp.amount = 10
    /\ Len(userBadges) = 1
    /\ users[resp.user].points = 20

\* C7: with d = floor((now - lastActiveAt) / 24h), PUT /users/:id/streak leaves
\* currentStreak unchanged when d = 0, sets it to currentStreak + 1 when d = 1
\* and to 1 with streakBroken when d >= 2; streakBroken is false in the first
\* two cases and lastActiveAt is set to now in all three.
C7_StreakTransition ==
    [][\A caller \in UserIds, id \in UserIds :
          UpdateStreak(caller, id) /\ id \in DOMAIN users
              => LET elapsed == clock - users[id].lastActiveAt
                     before == users[id].currentStreak
                     after == users'[id].currentStreak
                 IN /\ (0 <= elapsed /\ elapsed < 24)
                          => after = before /\ ~resp'.flag
                    /\ (24 <= elapsed /\ elapsed < 48)
                          => after = before + 1 /\ ~resp'.flag
                    /\ elapsed >= 48 => after = 1 /\ resp'.flag
                    /\ users'[id].lastActiveAt = clock
                    /\ resp'.status = 200 /\ resp'.amount = after]_vars

\* a streak of several days has just been broken
C7_Witness ==
    /\ resp.op = "updateStreak" /\ resp.status = 200 /\ resp.flag
    /\ users[resp.user].currentStreak = 1
    /\ users[resp.user].longestStreak >= 3

\* C8: in every reachable state, for every user, longestStreak >= currentStreak,
\* also with concurrent streak updates for the same user interleaved at the
\* granularity of single storage reads and writes.
C8_LongestAtLeastCurrent ==
    \A u \in DOMAIN users : users[u].longestStreak >= users[u].currentStreak

\* two streak updates of one user have read the same row and both have written
C8_Witness ==
    \E r1 \in DOMAIN reqs, r2 \in DOMAIN reqs :
        /\ r1 # r2
        /\ reqs[r1].op = "updateStreak" /\ reqs[r2].op = "updateStreak"
        /\ reqs[r1].id = reqs[r2].id
        /\ reqs[r1].status = 200 /\ reqs[r2].status = 200
        /\ reqs[r1].user = reqs[r2].user
        /\ reqs[r1].now # reqs[r2].now
        /\ users[reqs[r1].id].currentStreak > reqs[r1].user.currentStreak

\* C9: a streak update awards a bonus if and only if the new streak is greater
\* than the previous one and a multiple of 7; it then adds exactly newStreak
\* points and appends exactly one streak_bonus Contribution of newStreak points,
\* and otherwise changes neither points nor contributions; no bonus is awarded
\* on the same-day path or on the reset path.
C9_StreakBonus ==
    [][\A caller \in UserIds, id \in UserIds :
          UpdateStreak(caller, id) /\ id \in DOMAIN users
              => LET elapsed == clock - users[id].lastActiveAt
                     before == users[id].currentStreak
                     after == users'[id].currentStreak
                     none == /\ users'[id].points = users[id].points
                             /\ contributions' = contributions
                 IN /\ IF after > before /\ after % 7 = 0
                       THEN AwardedOnce(id, "streak_bonus", after)
                       ELSE none
                    /\ (elapsed < 24 \/ elapsed >= 48) => none]_vars

\* the seventh day of a streak has been rewarded
C9_Witness ==
    /\ resp.op = "updateStreak" /\ resp.status = 200 /\ resp.amount = 7
    /\ users[resp.user].points = 17
    /\ \E i \in 1..Len(contributions) :
          /\ contributions[i].type = "streak_bonus"
          /\ contributions[i].points = 7

\* the number of consecutive days of S that end with day d
RECURSIVE ConsecutiveDays(_, _)
ConsecutiveDays(S, d) == IF d \in S THEN 1 + ConsecutiveDays(S, d - 1) ELSE 0

\* the latest day of a non-empty set of days
LastDay(S) == CHOOSE d \in S : \A e \in S : e <= d

\* C10: after any sequence of streak updates for a user, currentStreak equals
\* the number of consecutive calendar days, ending with the day of the most
\* recent update, on each of which the user made at least one streak update.
C10_StreakCountsDays ==
    \A u \in DOMAIN users :
        streakDays[u] # {}
            => users[u].currentStreak
                  = ConsecutiveDays(streakDays[u], LastDay(streakDays[u]))

\* C11: for every non-negative resulting total p, PUT /users/:id/points (action
\* add or set) stores points = p together with level = floor(p / 100) + 1, so
\* level is 1 for p in 0..99 and 2 at p = 100; leveledUp is true exactly when
\* the new level exceeds the previously stored level.
C11_LevelStored ==
    [][\A caller \in UserIds, id \in UserIds, points \in LevelPointsIn,
         action \in ActionIn :
          UpdatePoints(caller, id, TRUE, points, action) /\ id \in DOMAIN users
              => LET p == IF action = "set" THEN points
                          ELSE users[id].points + points
                     level == users'[id].level
                 IN p >= 0
                      => /\ resp'.status = 200
                         /\ users'[id].points = p
                         /\ (level - 1) * 100 <= p /\ p < level * 100
                         /\ (p \in 0..99 => level = 1)
                         /\ (p = 100 => level = 2)
                         /\ resp'.flag = (level > users[id].level)]_vars

\* a user has just reached 100 points and level 2 through PUT /:id/points
C11_Witness ==
    /\ resp.op = "updatePoints" /\ resp.status = 200 /\ resp.flag
    /\ users[resp.user].points = 100
    /\ users[resp.user].level = 2

\* C12: with no request in flight, every user's stored level is
\* floor(points / 100) + 1, whichever operation last changed points.
C12_LevelPersisted ==
    \A u \in DOMAIN users :
        /\ (users[u].level - 1) * 100 <= users[u].points
        /\ users[u].points < users[u].level * 100

\* C13: no operation decreases a user's points.
C13_PointsNeverDecrease ==
    [][\A u \in DOMAIN users : users'[u].points >= users[u].points]_vars

\* the request was refused as invalid or unknown
Refused == resp'.status \in {400, 404}

\* C14: a request answered 400 (invalid input) or 404 (not found) has created,
\* modified or deleted no row of any table: issue create with a missing field or
\* an invalid category or severity, vote with an invalid type or an unknown
\* issue, comment with empty content or an unknown issue, badge unlock with a
\* missing badgeId or an unknown user or badge, points update with missing
\* points or an unknown user, streak update for an unknown user.
C14_RefusedLeavesStore ==
    [][/\ \A caller \in UserIds, body \in IssueBodyIn :
              CreateIssue(caller, body.severity, body.category, body.complete)
                /\ Refused => UNCHANGED store
       /\ \A caller \in UserIds, id \in IssueIds, type \in VoteTypeIn :
              Vote(caller, id, type) /\ Refused => UNCHANGED store
       /\ \A caller \in UserIds, id \in IssueIds, content \in ContentIn :
              AddComment(caller, id, content) /\ Refused => UNCHANGED store
       /\ \A caller \in UserIds, id \in UserIds, badgeId \in BadgeIds \cup {NoId} :
              UnlockBadge(caller, id, badgeId) /\ Refused => UNCHANGED store
       /\ \A caller \in UserIds, id \in UserIds, given \in BOOLEAN,
             points \in PointsIn, action \in ActionIn :
              UpdatePoints(caller, id, given, points, action) /\ Refused
                  => UNCHANGED store
       /\ \A caller \in UserIds, id \in UserIds :
              UpdateStreak(caller, id) /\ Refused => UNCHANGED store
      ]_vars

\* a comment on an unknown issue has been refused while the store holds rows
C14_Witness ==
    /\ resp.op = "addComment" /\ resp.status = 404
    /\ comments = <<>>
    /\ Len(contributions) >= 1
    /\ badges # <<>>

\* the lists of all users in descending order of points
DescendingLists ==
    {full \in [1..Cardinality(DOMAIN users) -> DOMAIN users] :
        /\ \A u \in DOMAIN users : \E i \in DOMAIN full : full[i] = u
        /\ \A i \in DOMAIN full : i > 1
               => users[full[i - 1]].points >= users[full[i]].points}

\* C15: for every page >= 1 and limit >= 1, GET /api/ranking returns exactly the
\* users at positions (page-1)*limit+1 .. page*limit of the list of all users
\* sorted by descending points, in that order, and the i-th returned entry
\* carries rank (page-1)*limit + i; with users of points 450, 320, 280 and
\* page = 1, limit = 10 the ranks are 1, 2, 3 in that order.
C15_RankingPage ==
    [][\A type \in RankTypeIn, page \in PageIn, limit \in LimitIn :
          GetRanking(type, page, limit)
              => LET ranking == resp'.ranking
                     first == (page - 1) * limit + 1
                     positions == {k \in first..(page * limit) :
                                      k <= Cardinality(DOMAIN users)}
                 IN /\ resp'.status = 200
                    /\ Len(ranking) = Cardinality(positions)
                    /\ \E full \in DescendingLists :
                          \A i \in 1..Len(ranking) :
                              /\ ranking[i].id = full[first + i - 1]
                              /\ ranking[i].points = users[ranking[i].id].points
                              /\ ranking[i].rank = (page - 1) * limit + i
                    /\ (/\ page = 1 /\ limit = 10
                        /\ DOMAIN users = {1, 2, 3}
                        /\ users[1].points = 450 /\ users[2].points = 320
                        /\ users[3].points = 280)
                          => /\ Len(ranking) = 3
                             /\ \A i \in 1..3 : /\ ranking[i].id = i
                                                 /\ ranking[i].rank = i]_vars

\* the second page of one has been served with three users ranked
C15_Witness ==
    /\ resp.op = "getRanking" /\ resp.status = 200
    /\ resp.page = 2 /\ resp.limit = 1 /\ resp.amount = 3
    /\ Len(resp.ranking) = 1
    /\ resp.ranking[1].rank = 2 /\ resp.ranking[1].id = 2
    /\ resp.ranking[1].points = 320

\* the handlers that report a user's own rank
RankOps == {"getUserPoints", "getGamification", "getUserStats", "getMyStats"}

\* C16: the rank reported for a user by GET /users/:id/points,
\* GET /users/:id/gamification, GET /stats/user/:userId and GET /stats/me is the
\* number of users with strictly greater points, plus 1; users with equal
\* points get equal rank and the best-scoring user has rank 1.
C16_IndividualRank ==
    [][/\ \A id \in RankUserIds :
              (\/ GetUserPoints(id) \/ GetGamification(id)
               \/ GetUserStats(id) \/ GetMyStats(id)) /\ id \in DOMAIN users
                  => /\ resp'.status = 200 /\ resp'.user = id
                     /\ \E above \in SUBSET DOMAIN users :
                           /\ \A v \in DOMAIN users :
                                 v \in above <=> users[v].points > users[id].points
                           /\ resp'.amount = Cardinality(above) + 1
                     /\ (\A v \in DOMAIN users :
                            users[v].points <= users[id].points)
                           => resp'.amount = 1
       /\ (/\ resp.op \in RankOps /\ resp.status = 200
           /\ resp'.op \in RankOps /\ resp'.status = 200
           /\ users' = users
           /\ users[resp.user].points = users[resp'.user].points)
              => resp'.amount = resp.amount
      ]_vars

\* two users tied below a third have been told the same rank, 2
C16_Witness ==
    /\ resp.op \in RankOps /\ resp.status = 200 /\ resp.amount = 2
    /\ \E v \in DOMAIN users :
          v # resp.user /\ users[v].points = users[resp.user].points
    /\ \E w \in DOMAIN users : users[w].points > users[resp.user].points

\* the position of user u in a ranking, 0 when absent
PositionOf(ranking, u) ==
    IF \E i \in 1..Len(ranking) : ranking[i].id = u
    THEN ranking[CHOOSE i \in 1..Len(ranking) : ranking[i].id = u].rank
    ELSE 0

\* the last answer was the ranking of all users, on one page
FullRanking(r) ==
    /\ r.op = "getRanking" /\ r.status = 200
    /\ r.page = 1 /\ Len(r.ranking) = Cardinality(DOMAIN users)

\* C17: in one store state, the rank a user is told individually is at most
\* the rank the same user has in the full GET /api/ranking list, and equal
\* exactly when no user with equal points precedes them in the list; so the
\* two agree for every user when all points are pairwise distinct.
C17_RankVersusList ==
    [][(/\ FullRanking(resp)
        /\ resp'.op \in RankOps /\ resp'.status = 200 /\ users' = users)
          => LET u == resp'.user
                 own == resp'.amount
                 listed == PositionOf(resp.ranking, u)
                 tiedBefore ==
                     \E i \in 1..Len(resp.ranking) :
                         /\ resp.ranking[i].rank < listed
                         /\ resp.ranking[i].points = users[u].points
             IN /\ listed >= 1
                /\ own <= listed
                /\ (own = listed) <=> ~tiedBefore
                /\ (\A v, w \in DOMAIN users :
                        v # w => users[v].points # users[w].points)
                      => own = listed]_vars

\* a user listed third behind a user with the same points is told rank 2
C17_Witness ==
    /\ resp.op = "getRanking" /\ resp.status = 200 /\ resp.page = 1
    /\ Len(resp.ranking) = 3
    /\ resp.ranking[2].points = resp.ranking[3].points
    /\ resp.ranking[1].points > resp.ranking[2].points
    /\ UsersAbove(users, resp.ranking[3].points) + 1 = 2

\* the points user u earned since an instant
RECURSIVE PointsSince(_, _, _)
PointsSince(c, u, since) ==
    IF c = <<>> THEN 0
    ELSE (IF Head(c).userId = u /\ Head(c).createdAt >= since
          THEN Head(c).points ELSE 0) + PointsSince(Tail(c), u, since)

\* C18: with type = monthly, GET /api/ranking counts only the contributions
\* created at or after the first instant of the current month: the points shown
\* for a user are those earned in the month, and the order is by those points.
C18_MonthlyWindow ==
    [][GetRanking("monthly", 1, 10)
          => LET ranking == resp'.ranking
                 since == clock - (clock % 720)
             IN /\ \A i \in 1..Len(ranking) :
                      ranking[i].points
                          = PointsSince(contributions, ranking[i].id, since)
                /\ \A i \in 1..Len(ranking) : i > 1
                      => PointsSince(contributions, ranking[i - 1].id, since)
                            >= PointsSince(contributions, ranking[i].id, since)
      ]_vars

\* C19 as stated: GET /users/:id/streak displays 0 when now - lastActiveAt is
\* strictly greater than 48 hours and the persisted currentStreak otherwise,
\* also at exactly 48 hours, and leaves the persisted streak fields as they are.
C19_StreakView ==
    [][\A id \in UserIds :
          GetStreak(id) /\ id \in DOMAIN users
              => /\ resp'.amount = IF clock - users[id].lastActiveAt > 48
                                   THEN 0 ELSE users[id].currentStreak
                 /\ users' = users]_vars

\* C19 amended: GET /users/:id/streak displays 0 when now - lastActiveAt is 48
\* hours or more and the persisted currentStreak when it is less, and leaves
\* every table, the persisted streak fields included, as it was.
C19_StreakViewAmended ==
    [][\A id \in UserIds :
          GetStreak(id) /\ id \in DOMAIN users
              => /\ resp'.status = 200
                 /\ resp'.amount = IF clock - users[id].lastActiveAt >= 48
                                   THEN 0 ELSE users[id].currentStreak
                 /\ resp'.flag = (clock - users[id].lastActiveAt < 48)
                 /\ UNCHANGED store]_vars

\* a streak of one day or more is displayed as 0 exactly 48 hours after the
\* last activity
C19_Witness ==
    /\ resp.op = "getStreak" /\ resp.status = 200 /\ resp.amount = 0
    /\ clock - users[resp.user].lastActiveAt = 48
    /\ users[resp.user].currentStreak >= 1

\* C20: a POST /api/badges request from an authenticated caller whose role is
\* not admin is rejected and creates no badge.
C20_BadgeByAdminOnly ==
    [][\A caller \in UserIds, name \in BadgeIds, points \in BadgePointsIn,
         complete \in BOOLEAN :
          CreateBadge(caller, name, points, complete)
            /\ users[caller].role # "admin"
              => badges' = badges /\ resp'.status \notin {200, 201}]_vars

\* C21: the contribution ledger is append-only: a Contribution row once created
\* is never modified or deleted, so every step keeps the rows there are, in
\* their order, and the rows of each user only grow.
C21_LedgerAppendOnly ==
    [][/\ Len(contributions') >= Len(contributions)
       /\ SubSeq(contributions', 1, Len(contributions)) = contributions]_vars

\* the ledger holds rows of three kinds, written by three handlers
C21_Witness ==
    /\ Len(contributions) = 3
    /\ contributions[1].type = "account_created"
    /\ contributions[2].type = "issue_reported"
    /\ contributions[3].type = "comment"

\* the rows of a table that belong to user u, in order
RECURSIVE RowsOfUser(_, _)
RowsOfUser(table, u) ==
    IF table = <<>> THEN <<>>
    ELSE (IF Head(table).userId = u THEN <<Head(table)>> ELSE <<>>)
             \o RowsOfUser(Tail(table), u)

\* the user a request rewards or updates
TargetOf(req) == IF req.op = "createIssue" THEN req.caller ELSE req.id

\* this step changes the record, the Contribution rows or the UserBadge rows
\* of user u
Touches(u) ==
    \/ users'[u] # users[u]
    \/ RowsOfUser(contributions', u) # RowsOfUser(contributions, u)
    \/ RowsOfUser(userBadges', u) # RowsOfUser(userBadges, u)

\* the requests that take a step
Stepping == {r \in DOMAIN reqs : reqs'[r] # reqs[r]}

\* C22: requests that reward or update different users are independent: every
\* storage step of an award, a badge unlock, a streak update or a points update
\* targeting user A leaves the points, level, currentStreak, longestStreak,
\* lastActiveAt, Contribution rows and UserBadge rows of every other user as
\* they were, whatever other requests are in flight.
C22_OtherUsersUnchanged ==
    [][\A u \in DOMAIN users :
          Touches(u) => /\ Stepping # {}
                        /\ \A r \in Stepping : TargetOf(reqs[r]) = u]_vars

\* a points update for one user and a streak update for the other have both
\* been answered and have changed the record each of its own user
C22_Witness ==
    /\ Len(reqs) = 2
    /\ reqs[1].status = 200 /\ reqs[2].status = 200
    /\ {reqs[1].op, reqs[2].op} = {"updatePoints", "updateStreak"}
    /\ TargetOf(reqs[1]) # TargetOf(reqs[2])
    /\ \A r \in {1, 2} :
          /\ reqs[r].op = "updatePoints" => users[reqs[r].id].points = 110
          /\ reqs[r].op = "updateStreak"
                => /\ users[reqs[r].id].currentStreak = 7
                   /\ users[reqs[r].id].points = 17

\* the amounts the answered PUT /:id/points requests with action add added to u
RECURSIVE AddedTo(_, _)
AddedTo(rs, u) ==
    IF rs = <<>> THEN 0
    ELSE (IF /\ Head(rs).op = "updatePoints" /\ Head(rs).status = 200
             /\ Head(rs).id = u /\ Head(rs).action = "add"
          THEN Head(rs).arg ELSE 0) + AddedTo(Tail(rs), u)

\* C23: concurrent point-adding requests for one user never lose an update:
\* once all requests have completed, the user's points are the sum of all the
\* amounts added, by rewards (the ledger) and by PUT /users/:id/points add.
C23_NoLostUpdate ==
    (\A r \in DOMAIN reqs : reqs[r].status # 0)
        => \A u \in DOMAIN users :
              users[u].points = SumPoints(contributions, u) + AddedTo(reqs, u)

\* C27: a user's points, level, badges and streak fields are modified through
\* PUT /users/:id/points, POST /users/:id/badges and PUT /users/:id/streak only
\* when the authenticated caller is that user or has role admin: a step of such
\* a request by any other caller leaves the record and the UserBadge rows of
\* :id as they were.
C27_SelfOrAdminOnly ==
    [][\A r \in Stepping :
          LET u == reqs[r].id
          IN (/\ reqs[r].op \in {"updatePoints", "unlockBadge", "updateStreak"}
              /\ u \in DOMAIN users
              /\ \/ users'[u] # users[u]
                 \/ RowsOfUser(userBadges', u) # RowsOfUser(userBadges, u))
                => \/ reqs[r].caller = u
                   \/ users[reqs[r].caller].role = "admin"]_vars

\* the streak_bonus rows of user u
BonusRows(u) ==
    {i \in 1..Len(contributions) :
        /\ contributions[i].userId = u
        /\ contributions[i].type = "streak_bonus"}

\* the points of the rows of user u that are no streak bonus
RECURSIVE PointsButBonus(_, _)
PointsButBonus(c, u) ==
    IF c = <<>> THEN 0
    ELSE (IF Head(c).userId = u /\ Head(c).type # "streak_bonus"
          THEN Head(c).points ELSE 0) + PointsButBonus(Tail(c), u)

\* C24: two concurrent streak updates for one user, both started when
\* currentStreak = 7k - 1 and one day has elapsed since lastActiveAt, act as one
\* of their serial orders: once both are answered, currentStreak is 7k and the
\* bonus has been awarded once (one streak_bonus row, 7k points).
C24_ConcurrentBonusOnce ==
    \A r1, r2 \in DOMAIN reqs :
        (/\ r1 # r2
         /\ reqs[r1].op = "updateStreak" /\ reqs[r2].op = "updateStreak"
         /\ reqs[r1].id = reqs[r2].id
         /\ reqs[r1].status = 200 /\ reqs[r2].status = 200
         /\ \A r \in {r1, r2} :
               /\ reqs[r].user.currentStreak % 7 = 6
               /\ reqs[r].now - reqs[r].user.lastActiveAt >= 24
               /\ reqs[r].now - reqs[r].user.lastActiveAt < 48)
          => LET u == reqs[r1].id
                 streak == reqs[r1].user.currentStreak + 1
             IN /\ users[u].currentStreak = streak
                /\ Cardinality(BonusRows(u)) = 1
                /\ users[u].points = PointsButBonus(contributions, u) + streak

\* the points of the rows of a type that user u earned for issue id
RECURSIVE PointsFor(_, _, _, _)
PointsFor(c, u, type, id) ==
    IF c = <<>> THEN 0
    ELSE (IF Head(c).userId = u /\ Head(c).type = type /\ Head(c).ref = id
          THEN Head(c).points ELSE 0) + PointsFor(Tail(c), u, type, id)

\* C25: for every user and issue, the issue_confirmed points the user earns for
\* that issue never exceed 5, however often the confirm vote is toggled.
C25_ConfirmPaidOnce ==
    \A u \in DOMAIN users, id \in IssueIds :
        PointsFor(contributions, u, "issue_confirmed", id) <= 5

\* C26: for every issue, the reporter is rewarded for its resolution at most
\* once: at most one issue_resolved Contribution of 50 points exists for it,
\* whatever the number of resolve calls.
C26_ResolvePaidOnce ==
    \A id \in DOMAIN issues :
        PointsFor(contributions, issues[id].userId, "issue_resolved", id) <= 50

\* the vote rows of a user on an issue with a type
VoteRows(vs, id, u, type) ==
    {i \in 1..Len(vs) :
        vs[i].issueId = id /\ vs[i].userId = u /\ vs[i].type = type}

\* C29: voting is a toggle: every successful POST /api/issues/:id/vote of a
\* type in {upvote, confirm} flips the presence of the vote row of (issue,
\* user, type), absent at first, so after n requests the row exists exactly
\* when n is odd; the voted flag of the response is that presence; and at most
\* one row per (issue, user, type) exists in every reachable state.
C29_VoteToggle ==
    /\ [](\A id \in IssueIds, u \in UserIds, type \in VoteTypeIn :
             Cardinality(VoteRows(votes, id, u, type)) <= 1)
    /\ [][\A caller \in UserIds, id \in IssueIds, type \in {"upvote", "confirm"} :
             Vote(caller, id, type) /\ resp'.status = 200
                 => LET before == VoteRows(votes, id, caller, type) # {}
                        after == VoteRows(votes', id, caller, type) # {}
                    IN /\ after = ~before
                       /\ resp'.flag = after
                       /\ \A i \in IssueIds, u \in UserIds, t \in VoteTypeIn :
                             <<i, u, t>> # <<id, caller, type>>
                                 => Cardinality(VoteRows(votes', i, u, t))
                                      = Cardinality(VoteRows(votes, i, u, t))
       ]_vars

\* a confirm vote has been toggled off while the same user's upvote stays
C29_Witness ==
    /\ resp.op = "vote" /\ resp.status = 200 /\ ~resp.flag
    /\ \E u \in DOMAIN users, id \in DOMAIN issues :
          /\ resp.user = u
          /\ VoteRows(votes, id, u, "upvote") # {}
          /\ VoteRows(votes, id, u, "confirm") = {}
          /\ PointsFor(contributions, u, "issue_confirmed", id) = 5

\* the caller wrote the row or is an administrator
OwnerOrAdmin(row, caller) ==
    row.userId = caller \/ users[caller].role = "admin"

\* C28: PUT and DELETE on /api/issues/:id and DELETE on a comment take effect
\* only when the caller wrote the row or has role admin, and then they do; for
\* any other authenticated caller the answer is 403 and the issues, comments
\* and votes are left as they were.
C28_OwnerOrAdminOnly ==
    [][/\ \A caller \in OwnerUserIds, id \in DOMAIN issues :
             /\ \A status \in StatusIn :
                   UpdateIssue(caller, id, status) =>
                       IF OwnerOrAdmin(issues[id], caller)
                       THEN /\ resp'.status = 200
                            /\ status # Missing => issues'[id].status = status
                       ELSE /\ resp'.status = 403
                            /\ UNCHANGED <<issues, comments, votes>>
             /\ DeleteIssue(caller, id) =>
                   IF OwnerOrAdmin(issues[id], caller)
                   THEN /\ resp'.status = 200
                        /\ id \notin DOMAIN issues'
                   ELSE /\ resp'.status = 403
                        /\ UNCHANGED <<issues, comments, votes>>
       /\ \A caller \in OwnerUserIds, commentId \in DOMAIN comments :
             DeleteComment(caller, commentId) =>
                 IF OwnerOrAdmin(comments[commentId], caller)
                 THEN /\ resp'.status = 200
                      /\ Len(comments') = Len(comments) - 1
                 ELSE /\ resp'.status = 403
                      /\ UNCHANGED <<issues, comments, votes>>
      ]_vars

\* a user who is neither the author nor an administrator has just been
\* refused, with an issue and a comment of another user in the store
C28_Witness ==
    /\ resp.status = 403
    /\ resp.op \in {"updateIssue", "deleteIssue", "deleteComment"}
    /\ \E id \in DOMAIN issues, u \in DOMAIN users :
          /\ users[u].role = "user"
          /\ issues[id].userId # u
          /\ issues[id].status = "open"
          /\ \E i \in DOMAIN comments : comments[i].userId # u
    /\ \E a \in DOMAIN users : users[a].role = "admin"

\* C30: for every user whose stored level is floor(points / 100) + 1, the
\* pointsToNextLevel that GET /users/:id/gamification returns is the smallest
\* positive number of points after which floor(points / 100) + 1 grows:
\* 100 - (points mod 100).
C30_PointsToNextLevel ==
    (/\ resp.op = "getGamification" /\ resp.status = 200
     /\ users[resp.user].level = (users[resp.user].points \div 100) + 1)
        => resp.pointsToNextLevel = 100 - (users[resp.user].points % 100)

====
